---------------------------- MODULE Spec2Model ----------------------------
(***************************************************************************)
(* Lem-in: the pipeline BuildGraph -> FindMultiplePaths -> AssignAnts ->  *)
(* SimulateMultiPath, modelled from src/graph/graph.go,                    *)
(* src/scheduling/scheduling.go, src/simulation/simulation.go and          *)
(* src/app/app.go.                                                         *)
(*                                                                         *)
(* Room names are positive integers; the empty string "" of the Go code    *)
(* (the zero value of an unset name or of a missing map key) is NoRoom.    *)
(* Go slices and path indices are 0-based; sequences here are 1-based, so  *)
(* the Go expression Path[k] is RoomAt(Path, k) == Path[k + 1].  Position  *)
(* values keep their Go value (-1 = not injected, 0-based path index).     *)
(***************************************************************************)
EXTENDS Integers, Sequences, FiniteSets

VARIABLES
    antCount,         \* number of ants read from the input file
    roomList,         \* parsed rooms: sequence of [Name, IsStart, IsEnd]
    tunnels,          \* parsed tunnels: sequence of [RoomA, RoomB]
    pc,               \* position of the run inside app.Run
    graphData,        \* result of BuildGraph: [Rooms, Neighbors]
    startRoom,        \* FindMultiplePaths: local startRoom
    endRoom,          \* FindMultiplePaths: local endRoom
    connectionsCopy,  \* FindMultiplePaths: working copy of Neighbors
    aliasedRooms,     \* rooms whose list in connectionsCopy shares its backing
                      \* array with the list of graphData.Neighbors
    foundPaths,       \* FindMultiplePaths: routes found so far
    paths,            \* route list handed to AssignAnts / SimulateMultiPath
    antsPerPath,      \* AssignAnts: ants assigned to each route so far
    antIdx,           \* AssignAnts: loop counter i
    simStates,        \* SimulateMultiPath: one PathSim per route
    moveOutputs,      \* SimulateMultiPath: recorded moves, one entry per turn
    turnCount         \* SimulateMultiPath: number of recorded turns

vars == << antCount, roomList, tunnels, pc, graphData, startRoom, endRoom,
           connectionsCopy, aliasedRooms, foundPaths, paths, antsPerPath,
           antIdx, simStates, moveOutputs, turnCount >>

graphVars == << roomList, tunnels, graphData, startRoom, endRoom,
                connectionsCopy, aliasedRooms, foundPaths >>

---------------------------------------------------------------------------
(* Bounds of the model *)

\* rooms of the farm in the pipeline specification (names 1..NumRooms)
NumRooms == 5
\* largest number of tunnels of a farm in the pipeline specification
MaxTunnels == 6
\* largest ant count in the pipeline specification
MaxAnts == 4
\* scheduling specification: largest number of routes handed to AssignAnts
SchedMaxPaths == 7
\* scheduling specification: largest total number of tunnels over the routes
SchedMaxEdges == 8
\* scheduling specification: largest ant count
SchedMaxAnts == 3
\* simulation specification: largest number of routes
SimMaxPaths == 2
\* simulation specification: largest number of rooms of a route
SimMaxLen == 4
\* simulation specification: largest number of ants allocated to one route
SimMaxPerPath == 3
\* largest number of routes the search loop of FindMultiplePaths collects
\* (the loop never ends when the start room is the end room)
MaxRounds == 5
\* core specification: largest number of rooms of the room list
CoreRooms == 3
\* core specification: largest number of tunnels of the tunnel list
CoreTunnels == 2
\* core specification: largest ant count
CoreAnts == 1
\* wide pipeline specification: rooms of the farm (names 1..WideRooms)
WideRooms == 6
\* wide pipeline specification: largest number of tunnels of a farm
WideTunnels == 7
\* wide pipeline specification: largest ant count
WideAnts == 4
\* input-file specification: largest number of room lines
DupRooms == 3
\* input-file specification: room names are 1..DupNames
DupNames == 2
\* input-file specification: x coordinates are 1..DupCoords (y is 0)
DupCoords == 3
\* input-file specification: largest ant count
DupAnts == 1

---------------------------------------------------------------------------
(* Program constants and helpers *)

\* src/simulation/simulation.go:226  const NotInjected = -1
NotInjected == -1

\* the zero value "" of a Go string
NoRoom == 0

\* a Go map with no keys
EmptyMap == [k \in {} |-> <<>>]

\* m[k] on a map of slices: the nil (empty) slice when the key is missing
Get(m, k) == IF k \in DOMAIN m THEN m[k] ELSE <<>>

\* m[k] = v on a map
Put(m, k, v) == [x \in DOMAIN m \cup {k} |-> IF x = k THEN v ELSE m[x]]

\* the Go expression path[k] (0-based)
RoomAt(path, k) == path[k + 1]

RECURSIVE SumSeq(_)
SumSeq(s) == IF s = <<>> THEN 0 ELSE Head(s) + SumSeq(Tail(s))

\* all sequences over S of length 1..n
SeqsUpTo(S, n) == UNION { [1..k -> S] : k \in 1..n }

\* the lists of at most n route lengths (rooms per route, each at least 2)
\* whose routes have at most e tunnels in total
RECURSIVE LengthLists(_, _)
LengthLists(n, e) ==
    IF n = 0 \/ e = 0 THEN { <<>> }
    ELSE { <<>> } \cup
         UNION { { << l >> \o rest : rest \in LengthLists(n - 1, e - (l - 1)) } :
                 l \in 2..(e + 1) }

---------------------------------------------------------------------------
(* graph.BuildGraph, src/graph/graph.go:20-57 *)

\* lines 31-34: the Rooms map; a later room of the same name replaces an
\* earlier one
roomsMap(rooms) ==
    [n \in { rooms[k].Name : k \in 1..Len(rooms) } |->
        LET last == CHOOSE k \in 1..Len(rooms) :
                        /\ rooms[k].Name = n
                        /\ \A m \in (k + 1)..Len(rooms) : rooms[m].Name # n
        IN  rooms[last]]

\* a variant of the loop over the tunnels that appends RoomB to the list of
\* RoomA and leaves the list of RoomB alone
RECURSIVE addTunnelsOneWay(_, _, _, _)
addTunnelsOneWay(rooms, connections, k, neighbors) ==
    IF k > Len(connections) THEN [ok |-> TRUE, Neighbors |-> neighbors]
    ELSE LET tunnel == connections[k]
         IN  IF \/ tunnel.RoomA \notin DOMAIN rooms
                \/ tunnel.RoomB \notin DOMAIN rooms
             THEN [ok |-> FALSE, Neighbors |-> EmptyMap]
             ELSE addTunnelsOneWay(rooms, connections, k + 1,
                      Put(neighbors, tunnel.RoomA,
                          Append(Get(neighbors, tunnel.RoomA), tunnel.RoomB)))

\* a variant of the loop over the tunnels that looks up RoomA only
RECURSIVE addTunnelsCheckA(_, _, _, _)
addTunnelsCheckA(rooms, connections, k, neighbors) ==
    IF k > Len(connections) THEN [ok |-> TRUE, Neighbors |-> neighbors]
    ELSE LET tunnel == connections[k]
         IN  IF tunnel.RoomA \notin DOMAIN rooms
             THEN [ok |-> FALSE, Neighbors |-> EmptyMap]
             ELSE LET n1 == Put(neighbors, tunnel.RoomA,
                                Append(Get(neighbors, tunnel.RoomA),
                                       tunnel.RoomB))
                      n2 == Put(n1, tunnel.RoomB,
                                Append(Get(n1, tunnel.RoomB), tunnel.RoomA))
                  IN  addTunnelsCheckA(rooms, connections, k + 1, n2)

\* lines 38-50: the loop over the tunnels, from tunnel k on; stops with an
\* error at the first tunnel that names an unknown room
RECURSIVE addTunnels(_, _, _, _)
addTunnels(rooms, connections, k, neighbors) ==
    IF k > Len(connections) THEN [ok |-> TRUE, Neighbors |-> neighbors]
    ELSE LET tunnel == connections[k]
         IN  IF \/ tunnel.RoomA \notin DOMAIN rooms
                \/ tunnel.RoomB \notin DOMAIN rooms
             THEN [ok |-> FALSE, Neighbors |-> EmptyMap]
             ELSE LET n1 == Put(neighbors, tunnel.RoomA,
                                Append(Get(neighbors, tunnel.RoomA),
                                       tunnel.RoomB))
                      n2 == Put(n1, tunnel.RoomB,
                                Append(Get(n1, tunnel.RoomB), tunnel.RoomA))
                  IN  addTunnels(rooms, connections, k + 1, n2)

\* lines 20-57: BuildGraph; ok = FALSE is the returned error (graph nil)
BuildGraph(rooms, connections) ==
    LET r == addTunnels(roomsMap(rooms), connections, 1, EmptyMap)
    IN  [ ok |-> r.ok,
          Rooms |-> IF r.ok THEN roomsMap(rooms) ELSE EmptyMap,
          Neighbors |-> r.Neighbors ]

---------------------------------------------------------------------------
(* graph.FindMultiplePaths, src/graph/graph.go:66-173 *)

\* a variant of removeEdge that returns the emptied list
removeEdgeAll(connectionList, roomNameToRemove) == <<>>

\* lines 165-173: removeEdge drops every occurrence of the room name
removeEdge(connectionList, roomNameToRemove) ==
    SelectSeq(connectionList, LAMBDA roomName : roomName # roomNameToRemove)

\* lines 156-161: removePathEdges, from step i of the path on: only the
\* entry of fromRoom is changed, the entry of toRoom keeps fromRoom
RECURSIVE removePathEdgesFrom(_, _, _)
removePathEdgesFrom(connections, roomPath, i) ==
    IF i > Len(roomPath) - 1 THEN connections
    ELSE LET fromRoom == roomPath[i]
             toRoom == roomPath[i + 1]
         IN  removePathEdgesFrom(
                 Put(connections, fromRoom,
                     removeEdge(Get(connections, fromRoom), toRoom)),
                 roomPath, i + 1)

removePathEdges(connections, roomPath) ==
    removePathEdgesFrom(connections, roomPath, 1)

\* parentRoom[room]: "" when the room has no parent recorded
parentOf(parentRoom, room) ==
    IF room \in DOMAIN parentRoom THEN parentRoom[room] ELSE NoRoom

\* a variant of the loop that stops at the room without a parent and leaves
\* it out of the path
RECURSIVE rebuildPathNoStart(_, _, _)
rebuildPathNoStart(parentRoom, room, path) ==
    IF parentOf(parentRoom, room) = NoRoom THEN path
    ELSE rebuildPathNoStart(parentRoom, parentOf(parentRoom, room),
                            << room >> \o path)

\* lines 127-132: the path rebuilt backwards from room, prepended to path
RECURSIVE rebuildPath(_, _, _)
rebuildPath(parentRoom, room, path) ==
    IF room = NoRoom THEN path
    ELSE rebuildPath(parentRoom, parentOf(parentRoom, room),
                     << room >> \o path)

\* lines 136-142: the loop over the neighbours of currentRoom, from
\* neighbour k on
RECURSIVE visitNeighbors(_, _, _, _, _, _)
visitNeighbors(list, k, currentRoom, queue, visited, parentRoom) ==
    IF k > Len(list)
    THEN [queue |-> queue, visited |-> visited, parentRoom |-> parentRoom]
    ELSE LET nextRoom == list[k]
         IN  IF nextRoom \notin visited
             THEN visitNeighbors(list, k + 1, currentRoom,
                      Append(queue, nextRoom), visited \cup {nextRoom},
                      [x \in DOMAIN parentRoom \cup {nextRoom} |->
                          IF x = nextRoom THEN currentRoom
                          ELSE parentRoom[x]])
             ELSE visitNeighbors(list, k + 1, currentRoom, queue, visited,
                                 parentRoom)

\* a variant of the loop that takes the room added last from the queue
RECURSIVE bfsLoopLast(_, _, _, _, _)
bfsLoopLast(connections, endRoom_, queue, visited, parentRoom) ==
    IF Len(queue) = 0 THEN [found |-> FALSE, path |-> <<>>]
    ELSE LET currentRoom == queue[Len(queue)]
         IN  IF currentRoom = endRoom_
             THEN [ found |-> TRUE,
                    path |-> rebuildPath(parentRoom, endRoom_, <<>>) ]
             ELSE LET r == visitNeighbors(Get(connections, currentRoom), 1,
                               currentRoom, SubSeq(queue, 1, Len(queue) - 1),
                               visited, parentRoom)
                  IN  bfsLoopLast(connections, endRoom_, r.queue, r.visited,
                                  r.parentRoom)

\* lines 122-144: the loop over the queue
RECURSIVE bfsLoop(_, _, _, _, _)
bfsLoop(connections, endRoom_, queue, visited, parentRoom) ==
    IF Len(queue) = 0 THEN [found |-> FALSE, path |-> <<>>]
    ELSE LET currentRoom == Head(queue)
         IN  IF currentRoom = endRoom_
             THEN [ found |-> TRUE,
                    path |-> rebuildPath(parentRoom, endRoom_, <<>>) ]
             ELSE LET r == visitNeighbors(Get(connections, currentRoom), 1,
                               currentRoom, Tail(queue), visited, parentRoom)
                  IN  bfsLoop(connections, endRoom_, r.queue, r.visited,
                              r.parentRoom)

\* lines 116-145: bfs
bfs(connections, startRoom_, endRoom_) ==
    bfsLoop(connections, endRoom_, << startRoom_ >>, {startRoom_},
            [x \in {} |-> NoRoom])

\* a variant of the scan that falls back to any room of the map when no
\* room carries the flag
flaggedRoomsOrAny(rooms, flag) ==
    LET flagged == { n \in DOMAIN rooms :
                        IF flag = "IsStart" THEN rooms[n].IsStart
                        ELSE rooms[n].IsEnd }
    IN  IF flagged # {} THEN flagged
        ELSE IF DOMAIN rooms = {} THEN {NoRoom} ELSE DOMAIN rooms

\* lines 69-76: the names the loop over the Rooms map can leave in
\* startRoom (flag = "IsStart") or endRoom ("IsEnd"): the map is visited in
\* an unspecified order and the last flagged room wins; "" when none is
flaggedRooms(rooms, flag) ==
    LET flagged == { n \in DOMAIN rooms :
                        IF flag = "IsStart" THEN rooms[n].IsStart
                        ELSE rooms[n].IsEnd }
    IN  IF flagged = {} THEN {NoRoom} ELSE flagged

\* a variant of the copy that stores the lists of the graph themselves:
\* connectionsCopy[roomName] = connectedList
copyNeighborsShallow(neighbors) ==
    [connections |-> neighbors, shared |-> DOMAIN neighbors]

\* lines 84-89: connectionsCopy; every newList is made by make and filled by
\* copy, so no list of the copy shares its backing array with the graph
copyNeighbors(neighbors) ==
    [connections |-> neighbors, shared |-> {}]

\* lines 166-172, on a list whose backing array is shared: removeEdge writes
\* newList over the front of the array of connectionList, so a slice of the
\* old length on that array holds newList followed by the old tail
seenThrough(oldList, newList) ==
    newList \o SubSeq(oldList, Len(newList) + 1, Len(oldList))

\* graphData.Neighbors after removePathEdges has rewritten connections: the
\* lists of the rooms in shared are the arrays removeEdge wrote to
writeThrough(neighbors, connections, shared) ==
    [room \in DOMAIN neighbors |->
        IF room \in shared
        THEN seenThrough(neighbors[room], Get(connections, room))
        ELSE neighbors[room]]

---------------------------------------------------------------------------
(* scheduling.AssignAnts, src/scheduling/scheduling.go:20-54 *)

\* a variant of the cost that leaves out the ants already assigned
pathCostLengthOnly(pathList, perPath, j) == Len(pathList[j]) - 1

\* line 41: cost := len(paths[j]) + antsPerPath[j] - 1
pathCost(pathList, perPath, j) == Len(pathList[j]) + perPath[j] - 1

\* lines 36-43: the slice pathCosts before it is sorted
pathCosts(pathList, perPath) ==
    [j \in 1..Len(pathList) |->
        [index |-> j, cost |-> pathCost(pathList, perPath, j)]]

\* a variant of the less function that sorts by descending cost
costGreater(x, y) == x.cost > y.cost

\* a variant of the less function that also holds of equal costs
costLessOrEqual(x, y) == x.cost <= y.cost

\* line 47: the less function handed to sort.Slice
costLess(x, y) == x.cost < y.cost

\* data.Swap(a, b)
swap(s, a, b) == [s EXCEPT ![a] = s[b], ![b] = s[a]]

\* the inner loop of insertion sort: for j := i; j > a && less(j, j-1); j--
RECURSIVE sinkDown(_, _)
sinkDown(s, j) ==
    IF j > 1 /\ costLess(s[j], s[j - 1])
    THEN sinkDown(swap(s, j, j - 1), j - 1)
    ELSE s

\* insertion sort of s[i..]: for i := a + 1; i < b; i++
RECURSIVE insertionSort(_, _)
insertionSort(s, i) ==
    IF i > Len(s) THEN s ELSE insertionSort(sinkDown(s, i), i + 1)

\* the gap-6 pass sort.Slice runs before insertion sort on a slice of at most
\* 12 elements in the Go releases 1.8 .. 1.18:
\*   for i := a + 6; i < b; i++ { if less(i, i-6) { swap(i, i-6) } }
RECURSIVE shellPass(_, _)
shellPass(s, i) ==
    IF i > Len(s) THEN s
    ELSE shellPass(IF costLess(s[i], s[i - 6]) THEN swap(s, i, i - 6) ELSE s,
                   i + 1)

\* The builds of sort.Slice on a slice of at most 12 elements.  sort.Slice
\* is documented as not stable; which element of several equal ones comes
\* first is decided by the release the program is built with:
\*   "pdq"   (Go >= 1.19): insertion sort alone;
\*   "quick" (Go 1.8 .. 1.18): the gap-6 pass, then insertion sort.
SortImpls == {"pdq", "quick"}

\* lines 46-48: sort.Slice(pathCosts, less), on at most 12 elements
SortSlice(impl, s) ==
    IF impl = "pdq" THEN insertionSort(s, 2)
    ELSE insertionSort(shellPass(s, 7), 2)

\* lines 36-50, one iteration of the loop over the ants: the counts after
\* antsPerPath[pathCosts[0].index]++
assignOne(impl, pathList, perPath) ==
    LET sorted == SortSlice(impl, pathCosts(pathList, perPath))
        chosen == sorted[1].index
    IN  [perPath EXCEPT ![chosen] = perPath[chosen] + 1]

\* a variant of the loop header that starts the loop at i := 1
AssignStartFromOne ==
    /\ pc = "assign"
    /\ antsPerPath' = [j \in 1..Len(paths) |-> 0]
    /\ antIdx' = 1
    /\ pc' = "assignLoop"
    /\ UNCHANGED << antCount, paths, simStates, moveOutputs, turnCount >>
    /\ UNCHANGED graphVars

\* lines 22-24: antsPerPath := make([]int, numPaths)
AssignStart ==
    /\ pc = "assign"
    /\ antsPerPath' = [j \in 1..Len(paths) |-> 0]
    /\ antIdx' = 0
    /\ pc' = "assignLoop"
    /\ UNCHANGED << antCount, paths, simStates, moveOutputs, turnCount >>
    /\ UNCHANGED graphVars

\* lines 27-51: one iteration of for i := 0; i < antCount; i++
AssignAnt ==
    /\ pc = "assignLoop"
    /\ antIdx < antCount
    /\ \E impl \in SortImpls :
          antsPerPath' = assignOne(impl, paths, antsPerPath)
    /\ antIdx' = antIdx + 1
    /\ UNCHANGED << antCount, paths, pc, simStates, moveOutputs, turnCount >>
    /\ UNCHANGED graphVars

\* line 53: the loop has ended, the assignment is returned
AssignReturn ==
    /\ pc = "assignLoop"
    /\ antIdx >= antCount
    /\ pc' = "simulate"
    /\ UNCHANGED << antCount, paths, antsPerPath, antIdx, simStates,
                    moveOutputs, turnCount >>
    /\ UNCHANGED graphVars

---------------------------------------------------------------------------
(* simulation.SimulateMultiPath, src/simulation/simulation.go:22-214 *)

\* lines 33-45 of initSimulation: the ids antIDCounter .. of one route
RECURSIVE initSimFrom(_, _, _, _)
initSimFrom(pathList, perPath, k, antIDCounter) ==
    IF k > Len(pathList) THEN <<>>
    ELSE LET antCountForPath == perPath[k]
             sim == [ Path |-> pathList[k],
                      Positions |-> [j \in 1..antCountForPath |-> NotInjected],
                      AntIDs |-> [j \in 1..antCountForPath |->
                                     antIDCounter + j - 1] ]
         IN  << sim >> \o initSimFrom(pathList, perPath, k + 1,
                                      antIDCounter + antCountForPath)

\* a variant of initSimulation whose antIDCounter starts at 0
initSimulationFromZero(pathList, perPath) == initSimFrom(pathList, perPath, 1, 0)

\* lines 22-60: initSimulation
initSimulation(pathList, perPath) == initSimFrom(pathList, perPath, 1, 1)

\* the ants (indices into Positions) of a route
AntsOf(sim) == 1..Len(sim.Positions)

\* a variant of isRoomOccupied that compares with the index after roomIndex
isRoomOccupiedOffByOne(positions, roomIndex) ==
    \E j \in 1..Len(positions) : positions[j] = roomIndex + 1

\* a variant of isRoomOccupied that counts every ant at or beyond roomIndex
isRoomOccupiedAtOrBeyond(positions, roomIndex) ==
    \E j \in 1..Len(positions) : positions[j] >= roomIndex

\* lines 71-80: isRoomOccupied
isRoomOccupied(positions, roomIndex) ==
    \E j \in 1..Len(positions) : positions[j] = roomIndex

\* fmt.Sprintf("L%d-%s", antID, room): the recorded move
Move(antID, room) == [ant |-> antID, room |-> room]

\* the moves of the ants j.. of a two-room route that are not yet injected
RECURSIVE directMoves(_, _)
directMoves(simState, j) ==
    IF j > Len(simState.Positions) THEN <<>>
    ELSE (IF simState.Positions[j] = NotInjected
          THEN << Move(simState.AntIDs[j], RoomAt(simState.Path, 1)) >>
          ELSE <<>>) \o directMoves(simState, j + 1)

\* a variant of the two-room case without the break: every ant not yet
\* injected enters in the same turn
processDirectAll(simState, j, newPositions, moves) ==
    [ newPositions |-> [k \in 1..Len(newPositions) |->
                           IF simState.Positions[k] = NotInjected THEN 1
                           ELSE newPositions[k]],
      moves |-> moves \o directMoves(simState, 1) ]

\* a variant of the two-room case that records the move of the first ant
\* not yet injected and leaves its position as it was
processDirectKeepPosition(simState, j, newPositions, moves) ==
    [ newPositions |-> newPositions,
      moves |-> LET all == directMoves(simState, 1)
                IN  IF all = <<>> THEN moves ELSE Append(moves, Head(all)) ]

\* a variant of the two-room case that injects no ant
processDirectNone(simState, j, newPositions, moves) ==
    [newPositions |-> newPositions, moves |-> moves]

\* lines 112-123: a route of two rooms; the first ant not yet injected goes
\* to index 1 and the loop breaks
RECURSIVE processDirect(_, _, _, _)
processDirect(simState, j, newPositions, moves) ==
    IF j > Len(simState.Positions)
    THEN [newPositions |-> newPositions, moves |-> moves]
    ELSE IF simState.Positions[j] = NotInjected
         THEN [ newPositions |-> [newPositions EXCEPT ![j] = 1],
                moves |-> Append(moves, Move(simState.AntIDs[j],
                                             RoomAt(simState.Path, 1))) ]
         ELSE processDirect(simState, j + 1, newPositions, moves)

\* a variant of the longer-route case that walks the ants from the first
\* index up: step j handles the ant at index len(Positions) - j + 1
RECURSIVE processLongForward(_, _, _, _)
processLongForward(simState, j, newPositions, moves) ==
    IF j < 1
    THEN [newPositions |-> newPositions, moves |-> moves]
    ELSE LET idx == Len(simState.Positions) - j + 1
             pos == simState.Positions[idx]
             pathLength == Len(simState.Path)
             nextIndex == pos + 1
         IN  IF pos = NotInjected
             THEN IF ~isRoomOccupied(newPositions, 1)
                  THEN processLongForward(simState, j - 1,
                           [newPositions EXCEPT ![idx] = 1],
                           Append(moves, Move(simState.AntIDs[idx],
                                              RoomAt(simState.Path, 1))))
                  ELSE processLongForward(simState, j - 1, newPositions,
                                          moves)
             ELSE IF /\ pos < pathLength - 1
                     /\ \/ nextIndex = pathLength - 1
                        \/ ~isRoomOccupied(newPositions, nextIndex)
                  THEN processLongForward(simState, j - 1,
                           [newPositions EXCEPT ![idx] = nextIndex],
                           Append(moves, Move(simState.AntIDs[idx],
                                   RoomAt(simState.Path, nextIndex))))
                  ELSE processLongForward(simState, j - 1, newPositions,
                                          moves)

\* a variant of the longer-route case that records, for an ant that
\* advances, the room it leaves
RECURSIVE processLongOldRoom(_, _, _, _)
processLongOldRoom(simState, j, newPositions, moves) ==
    IF j < 1
    THEN [newPositions |-> newPositions, moves |-> moves]
    ELSE LET pos == simState.Positions[j]
             pathLength == Len(simState.Path)
             nextIndex == pos + 1
         IN  IF pos = NotInjected
             THEN IF ~isRoomOccupied(newPositions, 1)
                  THEN processLongOldRoom(simState, j - 1,
                           [newPositions EXCEPT ![j] = 1],
                           Append(moves, Move(simState.AntIDs[j],
                                              RoomAt(simState.Path, 1))))
                  ELSE processLongOldRoom(simState, j - 1, newPositions,
                                          moves)
             ELSE IF /\ pos < pathLength - 1
                     /\ \/ nextIndex = pathLength - 1
                        \/ ~isRoomOccupied(newPositions, nextIndex)
                  THEN processLongOldRoom(simState, j - 1,
                           [newPositions EXCEPT ![j] = nextIndex],
                           Append(moves, Move(simState.AntIDs[j],
                                              RoomAt(simState.Path, pos))))
                  ELSE processLongOldRoom(simState, j - 1, newPositions,
                                          moves)

\* a variant of the longer-route case that tests a room against the
\* positions the ants had when the turn began (and, for index 1, against
\* the ants that have entered in the turn)
RECURSIVE processLongSnapshot(_, _, _, _)
processLongSnapshot(simState, j, newPositions, moves) ==
    IF j < 1
    THEN [newPositions |-> newPositions, moves |-> moves]
    ELSE LET pos == simState.Positions[j]
             pathLength == Len(simState.Path)
             nextIndex == pos + 1
         IN  IF pos = NotInjected
             THEN IF /\ ~isRoomOccupied(simState.Positions, 1)
                     /\ ~isRoomOccupied(newPositions, 1)
                  THEN processLongSnapshot(simState, j - 1,
                           [newPositions EXCEPT ![j] = 1],
                           Append(moves, Move(simState.AntIDs[j],
                                              RoomAt(simState.Path, 1))))
                  ELSE processLongSnapshot(simState, j - 1, newPositions,
                                           moves)
             ELSE IF /\ pos < pathLength - 1
                     /\ \/ nextIndex = pathLength - 1
                        \/ ~isRoomOccupied(simState.Positions, nextIndex)
                  THEN processLongSnapshot(simState, j - 1,
                           [newPositions EXCEPT ![j] = nextIndex],
                           Append(moves, Move(simState.AntIDs[j],
                                   RoomAt(simState.Path, nextIndex))))
                  ELSE processLongSnapshot(simState, j - 1, newPositions,
                                           moves)

\* lines 127-151: a longer route; for j := len(Positions)-1; j >= 0; j--
RECURSIVE processLong(_, _, _, _)
processLong(simState, j, newPositions, moves) ==
    IF j < 1
    THEN [newPositions |-> newPositions, moves |-> moves]
    ELSE LET pos == simState.Positions[j]
             pathLength == Len(simState.Path)
             nextIndex == pos + 1
         IN  IF pos = NotInjected
             THEN IF ~isRoomOccupied(newPositions, 1)
                  THEN processLong(simState, j - 1,
                           [newPositions EXCEPT ![j] = 1],
                           Append(moves, Move(simState.AntIDs[j],
                                              RoomAt(simState.Path, 1))))
                  ELSE processLong(simState, j - 1, newPositions, moves)
             ELSE IF pos < pathLength - 1
                  THEN IF \/ nextIndex = pathLength - 1
                          \/ ~isRoomOccupied(newPositions, nextIndex)
                       THEN processLong(simState, j - 1,
                                [newPositions EXCEPT ![j] = nextIndex],
                                Append(moves, Move(simState.AntIDs[j],
                                        RoomAt(simState.Path, nextIndex))))
                       ELSE processLong(simState, j - 1, newPositions, moves)
                  ELSE processLong(simState, j - 1, newPositions, moves)

\* a variant of processPath without copy(newPositions, Positions):
\* newPositions starts as the zeroed slice make returns
processPathNoCopy(simState, moves) ==
    IF Len(simState.Path) = 2
    THEN processDirect(simState, 1,
                       [j \in AntsOf(simState) |-> 0], moves)
    ELSE processLong(simState, Len(simState.Positions),
                     [j \in AntsOf(simState) |-> 0], moves)

\* a variant of processPath that also records, for every ant that was at
\* the final index when the turn began, a move into the end room
processPathReportEnd(simState, moves) ==
    LET r == IF Len(simState.Path) = 2
             THEN processDirect(simState, 1, simState.Positions, moves)
             ELSE processLong(simState, Len(simState.Positions),
                              simState.Positions, moves)
        last == Len(simState.Path) - 1
        atEnd == SelectSeq([j \in AntsOf(simState) |-> j],
                           LAMBDA j : simState.Positions[j] = last)
    IN  [ newPositions |-> r.newPositions,
          moves |-> r.moves \o
                    [m \in 1..Len(atEnd) |->
                        Move(simState.AntIDs[atEnd[m]],
                             RoomAt(simState.Path, last))] ]

\* lines 98-154: one route in one turn: newPositions starts as a copy of
\* Positions, the moves of the route are appended to the turn's moves
processPath(simState, moves) ==
    IF Len(simState.Path) = 2
    THEN processDirect(simState, 1, simState.Positions, moves)
    ELSE processLong(simState, Len(simState.Positions),
                     simState.Positions, moves)

\* a variant of the loop over the routes that ends after one route
processFromOneRoute(sims, idx, moves) ==
    IF idx > Len(sims) THEN [simStates |-> sims, moves |-> moves]
    ELSE LET r == processPath(sims[idx], moves)
         IN  [ simStates |-> [sims EXCEPT ![idx].Positions = r.newPositions],
               moves |-> r.moves ]

\* a variant of the loop over the routes that leaves a route as it is once
\* an earlier route has moved an ant in the turn
RECURSIVE processFromUntilMove(_, _, _)
processFromUntilMove(sims, idx, moves) ==
    IF idx > Len(sims) THEN [simStates |-> sims, moves |-> moves]
    ELSE IF moves # <<>> THEN processFromUntilMove(sims, idx + 1, moves)
    ELSE CHOOSE out \in
             { processFromUntilMove(
                   [sims EXCEPT ![idx].Positions = r.newPositions],
                   idx + 1, r.moves) :
                   r \in { processPath(sims[idx], moves) } } : TRUE

\* lines 96-158: the loop over the routes, from route idx on; r is the one
\* result of processing route idx (line 154 copies its newPositions back)
RECURSIVE processFrom(_, _, _)
processFrom(sims, idx, moves) ==
    IF idx > Len(sims) THEN [simStates |-> sims, moves |-> moves]
    ELSE CHOOSE out \in
             { processFrom([sims EXCEPT ![idx].Positions = r.newPositions],
                           idx + 1, r.moves) :
                   r \in { processPath(sims[idx], moves) } } : TRUE

\* lines 92-161: processTurn
processTurn(sims) == processFrom(sims, 1, <<>>)

\* line 178: simStates := initSimulation(pathList, assignment)
InitSimulation ==
    /\ pc = "simulate"
    /\ simStates' = initSimulation(paths, antsPerPath)
    /\ moveOutputs' = <<>>
    /\ turnCount' = 0
    /\ pc' = "turns"
    /\ UNCHANGED << antCount, paths, antsPerPath, antIdx >>
    /\ UNCHANGED graphVars

\* a variant of the iteration that records the turn before it tests
\* whether the turn has moves
TurnRecordAll ==
    /\ pc = "turns"
    /\ LET r == processTurn(simStates)
       IN  /\ simStates' = r.simStates
           /\ moveOutputs' = Append(moveOutputs, r.moves)
           /\ turnCount' = turnCount + 1
           /\ pc' = IF Len(r.moves) = 0 THEN "done" ELSE pc
    /\ UNCHANGED << antCount, paths, antsPerPath, antIdx >>
    /\ UNCHANGED graphVars

\* lines 187-204: one iteration of the turn loop; a turn without moves ends
\* the simulation and is not recorded
Turn ==
    /\ pc = "turns"
    /\ LET r == processTurn(simStates)
       IN  /\ simStates' = r.simStates
           /\ IF Len(r.moves) = 0
              THEN /\ pc' = "done"
                   /\ UNCHANGED << moveOutputs, turnCount >>
              ELSE /\ moveOutputs' = Append(moveOutputs, r.moves)
                   /\ turnCount' = turnCount + 1
                   /\ pc' = pc
    /\ UNCHANGED << antCount, paths, antsPerPath, antIdx >>
    /\ UNCHANGED graphVars

---------------------------------------------------------------------------
(* Route lists for the specifications that start at AssignAnts or at       *)
(* SimulateMultiPath: route k of n rooms leads from room 1 to room 2       *)
(* through rooms of its own.                                               *)

MakePath(k, n) ==
    [p \in 1..n |-> IF p = 1 THEN 1 ELSE IF p = n THEN 2 ELSE 100 * k + p]

MakePaths(lens) == [k \in 1..Len(lens) |-> MakePath(k, lens[k])]

NoGraph == [Rooms |-> EmptyMap, Neighbors |-> EmptyMap]

InitNoGraph ==
    /\ roomList = <<>>
    /\ tunnels = <<>>
    /\ graphData = NoGraph
    /\ startRoom = NoRoom
    /\ endRoom = NoRoom
    /\ connectionsCopy = EmptyMap
    /\ aliasedRooms = {}
    /\ foundPaths = <<>>

\* AssignAnts on any non-empty route list and any ant count
InitSched ==
    /\ InitNoGraph
    /\ antCount \in 0..SchedMaxAnts
    /\ \E lens \in LengthLists(SchedMaxPaths, SchedMaxEdges) \ { <<>> } :
          paths = MakePaths(lens)
    /\ pc = "assign"
    /\ antsPerPath = <<>>
    /\ antIdx = 0
    /\ simStates = <<>>
    /\ moveOutputs = <<>>
    /\ turnCount = 0

NextSched == AssignStart \/ AssignAnt \/ AssignReturn

SpecSched == InitSched /\ [][NextSched]_vars

\* before SimulateMultiPath is called
InitSim ==
    /\ InitNoGraph
    /\ antCount = 0
    /\ paths = <<>>
    /\ antsPerPath = <<>>
    /\ antIdx = 0
    /\ pc = "idle"
    /\ simStates = <<>>
    /\ moveOutputs = <<>>
    /\ turnCount = 0

\* the call SimulateMultiPath(antTotal, pathList, assignment, headerInfo) on
\* any route list of routes of at least two rooms and any allocation
SimulateCall ==
    /\ pc = "idle"
    /\ \E lens \in SeqsUpTo(2..SimMaxLen, SimMaxPaths) :
          /\ paths' = MakePaths(lens)
          /\ antsPerPath' \in [1..Len(lens) -> 0..SimMaxPerPath]
    /\ antCount' = SumSeq(antsPerPath')
    /\ antIdx' = antCount'
    /\ pc' = "simulate"
    /\ UNCHANGED << simStates, moveOutputs, turnCount >>
    /\ UNCHANGED graphVars

NextSim == SimulateCall \/ InitSimulation \/ Turn

SpecSim == InitSim /\ [][NextSim]_vars

\* the turn loop runs until it breaks
SpecSimFair == SpecSim /\ WF_vars(NextSim)

---------------------------------------------------------------------------
(* app.Run, src/app/app.go:80-140: the whole pipeline on a parsed farm *)

schedVars == << paths, antsPerPath, antIdx, simStates, moveOutputs,
                turnCount >>

\* app.go lines 97-116: the ant count is positive and some room is flagged
\* start and some room is flagged end
Validate ==
    /\ pc = "validate"
    /\ pc' = IF \/ antCount <= 0
                \/ ~\E k \in 1..Len(roomList) : roomList[k].IsStart
                \/ ~\E k \in 1..Len(roomList) : roomList[k].IsEnd
             THEN "error" ELSE "build"
    /\ UNCHANGED << antCount >>
    /\ UNCHANGED graphVars
    /\ UNCHANGED schedVars

\* app.go lines 118-123: BuildGraph, the run ends on its error
Build ==
    /\ pc = "build"
    /\ LET g == BuildGraph(roomList, tunnels)
       IN  /\ graphData' = [Rooms |-> g.Rooms, Neighbors |-> g.Neighbors]
           /\ pc' = IF g.ok THEN "find" ELSE "error"
    /\ UNCHANGED << antCount, roomList, tunnels, startRoom, endRoom,
                    connectionsCopy, aliasedRooms, foundPaths >>
    /\ UNCHANGED schedVars

\* graph.go lines 67-91: FindMultiplePaths up to its search loop
FindStart ==
    /\ pc = "find"
    /\ startRoom' \in flaggedRooms(graphData.Rooms, "IsStart")
    /\ endRoom' \in flaggedRooms(graphData.Rooms, "IsEnd")
    /\ IF startRoom' = NoRoom \/ endRoom' = NoRoom
       THEN /\ pc' = "error"
            /\ UNCHANGED << connectionsCopy, aliasedRooms >>
       ELSE /\ pc' = "search"
            /\ LET c == copyNeighbors(graphData.Neighbors)
               IN  /\ connectionsCopy' = c.connections
                   /\ aliasedRooms' = c.shared
    /\ foundPaths' = <<>>
    /\ UNCHANGED << antCount, roomList, tunnels, graphData >>
    /\ UNCHANGED schedVars

\* a variant of the search loop that puts each new route in front of the
\* routes found before
SearchPrepend ==
    /\ pc = "search"
    /\ Len(foundPaths) <= MaxRounds
    /\ LET r == bfs(connectionsCopy, startRoom, endRoom)
       IN  IF r.found
           THEN /\ foundPaths' = << r.path >> \o foundPaths
                /\ connectionsCopy' = removePathEdges(connectionsCopy, r.path)
                /\ UNCHANGED << pc, paths >>
           ELSE /\ pc' = IF Len(foundPaths) = 0 THEN "error" ELSE "assign"
                /\ paths' = foundPaths
                /\ UNCHANGED << foundPaths, connectionsCopy >>
    /\ UNCHANGED << antCount, roomList, tunnels, graphData, startRoom,
                    endRoom, aliasedRooms, antsPerPath, antIdx, simStates,
                    moveOutputs, turnCount >>

\* a variant of the search loop whose caller goes on to AssignAnts when no
\* route was found
SearchNoError ==
    /\ pc = "search"
    /\ Len(foundPaths) <= MaxRounds
    /\ LET r == bfs(connectionsCopy, startRoom, endRoom)
       IN  IF r.found
           THEN /\ foundPaths' = Append(foundPaths, r.path)
                /\ connectionsCopy' = removePathEdges(connectionsCopy, r.path)
                /\ UNCHANGED << pc, paths >>
           ELSE /\ pc' = "assign"
                /\ paths' = foundPaths
                /\ UNCHANGED << foundPaths, connectionsCopy >>
    /\ UNCHANGED << antCount, roomList, tunnels, graphData, startRoom,
                    endRoom, aliasedRooms, antsPerPath, antIdx, simStates,
                    moveOutputs, turnCount >>

\* graph.go lines 95-109 and app.go lines 126-130: one iteration of the
\* search loop; when bfs finds no path the routes found are returned, and
\* the run ends with an error when there is none.  The loop is followed for
\* MaxRounds routes.
Search ==
    /\ pc = "search"
    /\ Len(foundPaths) <= MaxRounds
    /\ LET r == bfs(connectionsCopy, startRoom, endRoom)
       IN  IF r.found
           THEN /\ foundPaths' = Append(foundPaths, r.path)
                /\ connectionsCopy' = removePathEdges(connectionsCopy, r.path)
                /\ graphData' =
                      [graphData EXCEPT !.Neighbors =
                          writeThrough(@, connectionsCopy', aliasedRooms)]
                /\ UNCHANGED << pc, paths >>
           ELSE /\ pc' = IF Len(foundPaths) = 0 THEN "error" ELSE "assign"
                /\ paths' = foundPaths
                /\ UNCHANGED << foundPaths, connectionsCopy, graphData >>
    /\ UNCHANGED << antCount, roomList, tunnels, startRoom, endRoom,
                    aliasedRooms, antsPerPath, antIdx, simStates,
                    moveOutputs, turnCount >>

\* the tunnels a farm of NumRooms rooms can have
TunnelPairs == { << a, b >> \in (1..NumRooms) \X (1..NumRooms) : a < b }

PairKey(t) == t[1] * (NumRooms + 1) + t[2]

\* the pairs of S as a tunnel list, by ascending key
RECURSIVE ListOf(_)
ListOf(S) ==
    IF S = {} THEN <<>>
    ELSE LET t == CHOOSE x \in S : \A y \in S : PairKey(x) <= PairKey(y)
         IN  << [RoomA |-> t[1], RoomB |-> t[2]] >> \o ListOf(S \ {t})

\* a parsed farm: rooms 1..NumRooms, room 1 the start and room NumRooms the
\* end, at most MaxTunnels distinct tunnels listed in ascending order, and
\* 0..MaxAnts ants
Init ==
    /\ antCount \in 0..MaxAnts
    /\ roomList = [n \in 1..NumRooms |->
                      [Name |-> n, IsStart |-> n = 1, IsEnd |-> n = NumRooms]]
    /\ \E S \in SUBSET TunnelPairs :
          /\ Cardinality(S) <= MaxTunnels
          /\ tunnels = ListOf(S)
    /\ pc = "validate"
    /\ graphData = NoGraph
    /\ startRoom = NoRoom
    /\ endRoom = NoRoom
    /\ connectionsCopy = EmptyMap
    /\ aliasedRooms = {}
    /\ foundPaths = <<>>
    /\ paths = <<>>
    /\ antsPerPath = <<>>
    /\ antIdx = 0
    /\ simStates = <<>>
    /\ moveOutputs = <<>>
    /\ turnCount = 0

Next ==
    \/ Validate
    \/ Build
    \/ FindStart
    \/ Search
    \/ AssignStart
    \/ AssignAnt
    \/ AssignReturn
    \/ InitSimulation
    \/ Turn

Spec == Init /\ [][Next]_vars

---------------------------------------------------------------------------
(* The core called on any room list and tunnel list: BuildGraph,           *)
(* FindMultiplePaths, AssignAnts and SimulateMultiPath in the order of     *)
(* app.go lines 118-139, without the checks of app.go lines 97-116.        *)

\* x comes before y in the order the tunnel lists are written in
PairBefore(x, y) == x[1] < y[1] \/ (x[1] = y[1] /\ x[2] <= y[2])

\* the pairs of S as a tunnel list, in that order
RECURSIVE TunnelList(_)
TunnelList(S) ==
    IF S = {} THEN <<>>
    ELSE LET t == CHOOSE x \in S : \A y \in S : PairBefore(x, y)
         IN  << [RoomA |-> t[1], RoomB |-> t[2]] >> \o TunnelList(S \ {t})

\* the tunnels a tunnel list of the core specification can name: any two
\* names of 1..CoreRooms, a room with itself included
CorePairs == { << a, b >> \in (1..CoreRooms) \X (1..CoreRooms) : a <= b }

\* any room list of rooms 1..n (n at most CoreRooms) with any start and end
\* flags, at most CoreTunnels distinct tunnels between the names
\* 1..CoreRooms (so tunnels to rooms that are not in the list, and tunnels
\* from a room to itself), and 1..CoreAnts ants
InitCore ==
    /\ antCount \in 1..CoreAnts
    /\ \E n \in 0..CoreRooms :
          \E isStart, isEnd \in [1..n -> BOOLEAN] :
              roomList = [k \in 1..n |->
                             [Name |-> k, IsStart |-> isStart[k],
                              IsEnd |-> isEnd[k]]]
    /\ \E S \in SUBSET CorePairs :
          /\ Cardinality(S) <= CoreTunnels
          /\ tunnels = TunnelList(S)
    /\ pc = "build"
    /\ graphData = NoGraph
    /\ startRoom = NoRoom
    /\ endRoom = NoRoom
    /\ connectionsCopy = EmptyMap
    /\ aliasedRooms = {}
    /\ foundPaths = <<>>
    /\ paths = <<>>
    /\ antsPerPath = <<>>
    /\ antIdx = 0
    /\ simStates = <<>>
    /\ moveOutputs = <<>>
    /\ turnCount = 0

NextCore ==
    \/ Build
    \/ FindStart
    \/ Search
    \/ AssignStart
    \/ AssignAnt
    \/ AssignReturn
    \/ InitSimulation
    \/ Turn

SpecCore == InitCore /\ [][NextCore]_vars

---------------------------------------------------------------------------
(* app.Run on the farms of WideRooms rooms *)

WidePairs == { << a, b >> \in (1..WideRooms) \X (1..WideRooms) : a < b }

\* a parsed farm: rooms 1..WideRooms, room 1 the start and room WideRooms
\* the end, at most WideTunnels distinct tunnels, and 1..WideAnts ants
InitWide ==
    /\ antCount \in 1..WideAnts
    /\ roomList = [n \in 1..WideRooms |->
                      [Name |-> n, IsStart |-> n = 1, IsEnd |-> n = WideRooms]]
    /\ \E S \in SUBSET WidePairs :
          /\ Cardinality(S) <= WideTunnels
          /\ tunnels = TunnelList(S)
    /\ pc = "validate"
    /\ graphData = NoGraph
    /\ startRoom = NoRoom
    /\ endRoom = NoRoom
    /\ connectionsCopy = EmptyMap
    /\ aliasedRooms = {}
    /\ foundPaths = <<>>
    /\ paths = <<>>
    /\ antsPerPath = <<>>
    /\ antIdx = 0
    /\ simStates = <<>>
    /\ moveOutputs = <<>>
    /\ turnCount = 0

SpecWide == InitWide /\ [][Next]_vars

---------------------------------------------------------------------------
(* app.Run from parser.ParseInputFile on: the room lines of the input file *)
(* may repeat names and coordinates.  roomList holds the rooms the lines   *)
(* define, with the coordinates X and Y of structs.Room.                   *)

\* parser.go lines 97-130 and 144: the room lines are turned into roomList;
\* a line whose coordinates are those of an earlier room line ends the
\* parse, and the run, with an error.  Names are not compared.
Parse ==
    /\ pc = "parse"
    /\ pc' = IF \E i, j \in 1..Len(roomList) :
                    /\ i < j
                    /\ roomList[i].X = roomList[j].X
                    /\ roomList[i].Y = roomList[j].Y
             THEN "error" ELSE "validate"
    /\ UNCHANGED << antCount >>
    /\ UNCHANGED graphVars
    /\ UNCHANGED schedVars

\* the rooms a room line can define
RoomLines ==
    [ Name : 1..DupNames, X : 1..DupCoords, Y : {0},
      IsStart : BOOLEAN, IsEnd : BOOLEAN ]

\* the tunnels between the names 1..DupNames
DupPairs == { << a, b >> \in (1..DupNames) \X (1..DupNames) : a < b }

\* an input file of at most DupRooms room lines, any of them flagged, with
\* distinct tunnels between the names and 1..DupAnts ants
InitDup ==
    /\ antCount \in 1..DupAnts
    /\ roomList \in UNION { [1..n -> RoomLines] : n \in 0..DupRooms }
    /\ \E S \in SUBSET DupPairs : tunnels = TunnelList(S)
    /\ pc = "parse"
    /\ graphData = NoGraph
    /\ startRoom = NoRoom
    /\ endRoom = NoRoom
    /\ connectionsCopy = EmptyMap
    /\ aliasedRooms = {}
    /\ foundPaths = <<>>
    /\ paths = <<>>
    /\ antsPerPath = <<>>
    /\ antIdx = 0
    /\ simStates = <<>>
    /\ moveOutputs = <<>>
    /\ turnCount = 0

NextDup ==
    \/ Parse
    \/ Validate
    \/ Build
    \/ FindStart
    \/ Search
    \/ AssignStart
    \/ AssignAnt
    \/ AssignReturn
    \/ InitSimulation
    \/ Turn

SpecDup == InitDup /\ [][NextDup]_vars

---------------------------------------------------------------------------
(* graph.ExtractPaths of the earlier revision of package graph, called on  *)
(* the Graph that BuildGraph returns for a farm.                           *)

\* part_003 lines 116-139: the closure dfs called on room current with the
\* path and the visited rooms of its caller; the paths it appends.  On its
\* return path and visited are as they were at the call (lines 136-138).
RECURSIVE dfs(_, _, _, _, _)
RECURSIVE dfsNeighbors(_, _, _, _, _, _)
dfs(neighbors, end, current, path, visited) ==
    LET here == Append(path, current)
    IN  IF current = end THEN << here >>
        ELSE dfsNeighbors(neighbors, end, Get(neighbors, current), 1, here,
                          visited \cup {current})

\* part_003 lines 129-133: the loop over the neighbors, from neighbor k on
dfsNeighbors(neighbors, end, list, k, path, visited) ==
    IF k > Len(list) THEN <<>>
    ELSE (IF list[k] \notin visited
          THEN dfs(neighbors, end, list[k], path, visited)
          ELSE <<>>)
         \o dfsNeighbors(neighbors, end, list, k + 1, path, visited)

\* part_003 lines 94-144: ExtractPaths with the start and end rooms its
\* scan of the Rooms map has left in start and end
ExtractPaths(g, start, end) ==
    IF start = NoRoom \/ end = NoRoom
    THEN [ok |-> FALSE, paths |-> <<>>]
    ELSE [ok |-> TRUE, paths |-> dfs(g.Neighbors, end, start, <<>>, {})]

\* the call ExtractPaths(g) on the Graph that BuildGraph has returned
Extract ==
    /\ pc = "find"
    /\ startRoom' \in flaggedRooms(graphData.Rooms, "IsStart")
    /\ endRoom' \in flaggedRooms(graphData.Rooms, "IsEnd")
    /\ LET r == ExtractPaths(graphData, startRoom', endRoom')
       IN  /\ paths' = r.paths
           /\ pc' = IF r.ok THEN "extracted" ELSE "error"
    /\ UNCHANGED << antCount, roomList, tunnels, graphData, connectionsCopy,
                    aliasedRooms, foundPaths, antsPerPath, antIdx,
                    simStates, moveOutputs, turnCount >>

NextExtract ==
    \/ Validate
    \/ Build
    \/ Extract

\* the farms of Init, with ExtractPaths as the path search
SpecExtract == Init /\ [][NextExtract]_vars

---------------------------------------------------------------------------
(* The calls of app.go lines 118-139 as functions of their arguments: what *)
(* one run returns once the scan of the Rooms map has left startRoom_ and  *)
(* endRoom_, with sort.Slice of build impl.                                *)

\* graph.go lines 95-104: the search loop from its current state on;
\* returned = FALSE when the loop is still running after MaxRounds routes
RECURSIVE searchLoop(_, _, _, _)
searchLoop(connections, startRoom_, endRoom_, found) ==
    IF Len(found) > MaxRounds THEN [returned |-> FALSE, paths |-> found]
    ELSE LET r == bfs(connections, startRoom_, endRoom_)
         IN  IF r.found
             THEN searchLoop(removePathEdges(connections, r.path),
                             startRoom_, endRoom_, Append(found, r.path))
             ELSE [returned |-> TRUE, paths |-> found]

\* graph.go lines 66-110: FindMultiplePaths; err = TRUE is a returned error
FindMultiplePaths(graph, startRoom_, endRoom_) ==
    IF startRoom_ = NoRoom \/ endRoom_ = NoRoom
    THEN [returned |-> TRUE, err |-> TRUE, paths |-> <<>>]
    ELSE LET r == searchLoop(copyNeighbors(graph.Neighbors).connections,
                             startRoom_, endRoom_, <<>>)
         IN  [ returned |-> r.returned,
               err |-> r.returned /\ Len(r.paths) = 0,
               paths |-> IF r.returned THEN r.paths ELSE <<>> ]

\* scheduling.go lines 27-51: the loop over the ants, left ants to place
RECURSIVE assignAll(_, _, _, _)
assignAll(impl, pathList, perPath, left) ==
    IF left <= 0 THEN perPath
    ELSE assignAll(impl, pathList, assignOne(impl, pathList, perPath),
                   left - 1)

\* scheduling.go lines 20-54: AssignAnts
AssignAnts(impl, ants, pathList) ==
    assignAll(impl, pathList, [j \in 1..Len(pathList) |-> 0], ants)

\* simulation.go lines 187-204: the turn loop; the recorded moves by turn
RECURSIVE turnsFrom(_, _)
turnsFrom(sims, outputs) ==
    LET r == processTurn(sims)
    IN  IF Len(r.moves) = 0 THEN outputs
        ELSE turnsFrom(r.simStates, Append(outputs, r.moves))

\* simulation.go lines 176-214: SimulateMultiPath; the trace it prints
SimulateMultiPath(pathList, assignment) ==
    turnsFrom(initSimulation(pathList, assignment), <<>>)

\* app.go lines 126-139: what a run on the built graph produces
RunOutput(impl, graph, ants, startRoom_, endRoom_) ==
    LET f == FindMultiplePaths(graph, startRoom_, endRoom_)
    IN  IF ~f.returned \/ f.err
        THEN [ returned |-> f.returned, err |-> f.err, routes |-> <<>>,
               allocation |-> <<>>, trace |-> <<>> ]
        ELSE LET assignment == AssignAnts(impl, ants, f.paths)
             IN  [ returned |-> TRUE, err |-> FALSE, routes |-> f.paths,
                   allocation |-> assignment,
                   trace |-> SimulateMultiPath(f.paths, assignment) ]

---------------------------------------------------------------------------
(* Properties of the whole pipeline, checked under Spec *)

\* the interior rooms of a route: all but its first and its last element
Interior(route) == { route[k] : k \in 2..(Len(route) - 1) }

\* C1: for every graph on which FindMultiplePaths returns routes, any two
\* distinct returned routes have disjoint interior-node sets.
C1_InteriorDisjoint ==
    pc = "assign" =>
        \A i, j \in 1..Len(paths) :
            i # j => Interior(paths[i]) \cap Interior(paths[j]) = {}

\* the ants (route, index) that are in room r
AntsIn(r) ==
    { ij \in UNION { {i} \X AntsOf(simStates[i]) : i \in 1..Len(simStates) } :
        LET sim == simStates[ij[1]]
            pos == sim.Positions[ij[2]]
        IN  pos # NotInjected /\ RoomAt(sim.Path, pos) = r }

\* C2: in any run of the whole pipeline, after every turn no room other than
\* the start room and the end room holds more than one ant, counting the
\* ants of all routes together.
C2_RoomCapacity ==
    pc \in {"turns", "done"} =>
        \A r \in (1..NumRooms) \ {startRoom, endRoom} :
            Cardinality(AntsIn(r)) <= 1

\* the rooms of the room list flagged start, and those flagged end
StartRooms ==
    { roomList[k].Name : k \in { m \in 1..Len(roomList) : roomList[m].IsStart } }

EndRooms ==
    { roomList[k].Name : k \in { m \in 1..Len(roomList) : roomList[m].IsEnd } }

\* some tunnel of the tunnel list joins rooms a and b
Joined(a, b) ==
    \E k \in 1..Len(tunnels) :
        { tunnels[k].RoomA, tunnels[k].RoomB } = { a, b }

\* a route of the original graph: from the start room to the end room, no
\* room twice, consecutive rooms joined by a tunnel
ValidRoute(route) ==
    /\ Len(route) >= 1
    /\ route[1] \in StartRooms
    /\ route[Len(route)] \in EndRooms
    /\ \A i, j \in 1..Len(route) : i # j => route[i] # route[j]
    /\ \A k \in 1..(Len(route) - 1) : Joined(route[k], route[k + 1])

\* C11: every route returned by FindMultiplePaths starts at the start room,
\* ends at the end room, repeats no room, and every pair of consecutive rooms
\* in it is joined by a tunnel of the original graph.
C11_RoutesValid ==
    pc = "assign" => \A i \in 1..Len(paths) : ValidRoute(paths[i])

C11_Witness ==
    /\ pc = "assign"
    /\ Len(paths) >= 2
    /\ \E i \in 1..Len(paths) : Len(paths[i]) >= 4

\* the names of the room list
RoomNames == { roomList[k].Name : k \in 1..Len(roomList) }

\* the rooms that can be reached from the rooms of S through the tunnels
RECURSIVE ReachFrom(_)
ReachFrom(S) ==
    LET ks == 1..Len(tunnels)
        T == S \cup { tunnels[k].RoomB : k \in { m \in ks : tunnels[m].RoomA \in S } }
               \cup { tunnels[k].RoomA : k \in { m \in ks : tunnels[m].RoomB \in S } }
    IN  IF T = S THEN S ELSE ReachFrom(T)

\* the start room and the end room lie in different connected components
Disconnected ==
    \A s0 \in StartRooms : EndRooms \cap ReachFrom({s0}) = {}

\* C12: when the start and end rooms lie in different connected components,
\* FindMultiplePaths returns an error and no routes, and the application
\* stops before AssignAnts and SimulateMultiPath are called.
\* (the search loop is left at its first bfs, for the error state, because
\* no route is ever found and the run never reaches AssignAnts)
C12_UnreachableEnd ==
    LET stopped == /\ pc \in {"validate", "build", "find", "search", "error"}
                   /\ foundPaths = <<>> /\ paths = <<>>
                   /\ antsPerPath = <<>> /\ simStates = <<>>
    IN  stopped \/ ~Disconnected

C12_Witness ==
    /\ Disconnected
    /\ pc = "error"
    /\ startRoom # NoRoom
    /\ Len(tunnels) >= 4

\* the rooms of a path
RoomsOf(path) == { path[k] : k \in 1..Len(path) }

\* the paths of the original graph that extend path p, without repeating a
\* room, up to the end room
RECURSIVE PathsFrom(_)
PathsFrom(p) ==
    LET last == p[Len(p)]
    IN  IF last \in EndRooms THEN { p }
        ELSE UNION { PathsFrom(Append(p, b)) :
                       b \in { x \in RoomNames \ RoomsOf(p) : Joined(last, x) } }

\* every start-to-end path of the original graph
AllRoutes == UNION { PathsFrom(<< s0 >>) : s0 \in StartRooms }

\* C16: the route set returned by FindMultiplePaths is maximal: the original
\* graph contains no further start-to-end path that is different from every
\* returned route and whose interior nodes are disjoint from the interior
\* nodes of all returned routes.
C16_Maximal ==
    pc = "assign" =>
        \A q \in AllRoutes :
            (\A i \in 1..Len(paths) : q # paths[i]) =>
                \E i \in 1..Len(paths) :
                    Interior(q) \cap Interior(paths[i]) # {}

C16_Witness ==
    /\ pc = "assign"
    /\ Len(paths) >= 2
    /\ Cardinality(AllRoutes) > Len(paths) + 1

\* C21: the routes returned by FindMultiplePaths are in order of discovery
\* with shortest first: the lengths of the routes in the returned list are
\* non-decreasing.
C21_LengthsNonDecreasing ==
    pc = "assign" =>
        \A i, j \in 1..Len(paths) : i < j => Len(paths[i]) <= Len(paths[j])

C21_Witness ==
    /\ pc = "assign"
    /\ Len(paths) >= 3
    /\ Len(paths[1]) < Len(paths[2])
    /\ Len(paths[2]) < Len(paths[3])

\* room r is no part of the working adjacency: it has no neighbors and is a
\* neighbor of no room
GoneFromWorking(r) ==
    /\ Get(connectionsCopy, r) = <<>>
    /\ \A a \in DOMAIN connectionsCopy :
          \A k \in 1..Len(connectionsCopy[a]) : connectionsCopy[a][k] # r

\* C26: after a route is accepted, every interior node of it is gone from
\* the working adjacency: it has no neighbor list left and appears in no
\* other node's neighbor list.
C26_InteriorRemoved ==
    pc = "search" =>
        \A i \in 1..Len(foundPaths) :
            \A r \in Interior(foundPaths[i]) : GoneFromWorking(r)

\* the rooms listed as neighbors of the rooms of S in the adjacency adj
ListedBy(adj, S) ==
    UNION { { Get(adj, a)[k] : k \in 1..Len(Get(adj, a)) } : a \in S }

\* the least number of steps along adj from a room of frontier to room
\* target, plus d; -1 when there is no such walk (seen: the rooms closer
\* than the frontier, and the frontier)
RECURSIVE StepsTo(_, _, _, _, _)
StepsTo(adj, target, frontier, seen, d) ==
    IF target \in frontier THEN d
    ELSE LET next == ListedBy(adj, frontier) \ seen
         IN  IF next = {} THEN -1
             ELSE StepsTo(adj, target, next, seen \cup next, d + 1)

\* route goes from the start room to the end room along adj, and no walk
\* along adj from the start room to the end room has fewer steps
ShortestIn(adj, route) ==
    /\ Len(route) >= 1
    /\ route[1] = startRoom
    /\ route[Len(route)] = endRoom
    /\ \A k \in 1..(Len(route) - 1) : route[k + 1] \in ListedBy(adj, {route[k]})
    /\ Len(route) - 1 = StepsTo(adj, endRoom, {startRoom}, {startRoom}, 0)

\* C27: each route appended by the search loop is a shortest start-to-end
\* path in the working adjacency as it is at the moment of that search; in
\* particular the first route is a shortest path in the original graph.
C27_ShortestRoute ==
    [][(pc = "search" /\ Len(foundPaths') = Len(foundPaths) + 1) =>
          (/\ ShortestIn(connectionsCopy, foundPaths'[Len(foundPaths')])
           /\ (foundPaths = <<>>) =>
                  ShortestIn(graphData.Neighbors, foundPaths'[1]))]_vars

C27_Witness ==
    /\ pc = "search"
    /\ Len(foundPaths) >= 2
    /\ Len(foundPaths[1]) >= 3
    /\ Len(foundPaths[2]) > Len(foundPaths[1])
    /\ \E k \in 1..Len(tunnels) :
          tunnels[k].RoomA = startRoom /\ tunnels[k].RoomB # foundPaths[1][2]

\* C17: FindMultiplePaths never changes the Graph it is given: after it
\* returns (with routes or with an error), graphData.Neighbors and
\* graphData.Rooms are equal to their values before the call.
C17_GraphUnchanged ==
    [][(pc \in {"find", "search"}) =>
          (graphData'.Neighbors = graphData.Neighbors
              /\ graphData'.Rooms = graphData.Rooms)]_vars

C17_Witness ==
    /\ pc = "assign"
    /\ Len(paths) >= 2
    /\ \E room \in DOMAIN connectionsCopy :
          Len(connectionsCopy[room]) + 2 <= Len(graphData.Neighbors[room])

---------------------------------------------------------------------------
(* Properties of the core on any room list and tunnel list, checked under  *)
(* SpecCore                                                                *)

\* the run is past FindMultiplePaths: routes have been returned
RoutesReturned ==
    pc \in {"assign", "assignLoop", "simulate", "turns", "done"}

\* no room of the graph is flagged start, or none is flagged end
NoStartOrEnd ==
    \/ \A n \in DOMAIN graphData.Rooms : ~graphData.Rooms[n].IsStart
    \/ \A n \in DOMAIN graphData.Rooms : ~graphData.Rooms[n].IsEnd

\* C13: FindMultiplePaths returns an error, and no routes, when no room of
\* the graph is flagged as start or no room is flagged as end.
C13_MissingEndpoint ==
    /\ [][(pc = "find" /\ NoStartOrEnd) =>
             (pc' = "error" /\ foundPaths' = <<>> /\ paths' = <<>>)]_vars
    /\ []((pc # "build" /\ NoStartOrEnd) =>
             (pc \in {"find", "error"} /\ paths = <<>>))

C13_Witness ==
    /\ pc = "error"
    /\ Len(tunnels) >= 1
    /\ Cardinality(DOMAIN graphData.Rooms) >= 2
    /\ \E n \in DOMAIN graphData.Rooms : graphData.Rooms[n].IsStart
    /\ \A n \in DOMAIN graphData.Rooms : ~graphData.Rooms[n].IsEnd

\* some tunnel names a room that is not in the room list
UnknownEndpoint ==
    \E k \in 1..Len(tunnels) :
        tunnels[k].RoomA \notin RoomNames \/ tunnels[k].RoomB \notin RoomNames

\* C14: BuildGraph returns an error and no graph whenever some tunnel names
\* a room that is not in the room list, and returns a graph without error
\* whenever every tunnel endpoint is in the room list.
C14_UnknownEndpoint ==
    [][pc = "build" =>
          IF UnknownEndpoint
          THEN pc' = "error" /\ graphData' = NoGraph
          ELSE /\ pc' = "find"
               /\ DOMAIN graphData'.Rooms = RoomNames
               /\ \A a, b \in RoomNames :
                      Joined(a, b) <=>
                          \E k \in 1..Len(Get(graphData'.Neighbors, a)) :
                              graphData'.Neighbors[a][k] = b]_vars

C14_Witness ==
    /\ pc = "error"
    /\ graphData = NoGraph
    /\ startRoom = NoRoom
    /\ Len(tunnels) >= 2
    /\ tunnels[1].RoomA \in RoomNames /\ tunnels[1].RoomB \in RoomNames
    /\ tunnels[2].RoomB \notin RoomNames

\* the tunnels (indices into the tunnel list) that room a is an end of, in
\* input order
IncidentTunnels(a) ==
    SelectSeq([k \in 1..Len(tunnels) |-> k],
              LAMBDA k : a \in { tunnels[k].RoomA, tunnels[k].RoomB })

\* the room at the other end of tunnel k, seen from room a
OtherEnd(k, a) ==
    IF tunnels[k].RoomA = a THEN tunnels[k].RoomB ELSE tunnels[k].RoomA

\* one entry per incident tunnel, in input order
OnePerTunnel(a) ==
    [m \in 1..Len(IncidentTunnels(a)) |-> OtherEnd(IncidentTunnels(a)[m], a)]

\* one entry per end of a tunnel at room a, in input order: a tunnel from a
\* to itself has both ends at a
RECURSIVE OnePerTunnelEnd(_, _)
OnePerTunnelEnd(a, k) ==
    IF k > Len(tunnels) THEN <<>>
    ELSE (IF tunnels[k].RoomA = a THEN << tunnels[k].RoomB >> ELSE <<>>)
         \o (IF tunnels[k].RoomB = a THEN << tunnels[k].RoomA >> ELSE <<>>)
         \o OnePerTunnelEnd(a, k + 1)

\* how many times room b occurs in a list
Occurrences(list, b) == Cardinality({ k \in 1..Len(list) : list[k] = b })

\* b occurs in a's list as many times as a occurs in b's list
SymmetricAdjacency ==
    \A a, b \in RoomNames :
        Occurrences(Get(graphData.Neighbors, a), b) =
            Occurrences(Get(graphData.Neighbors, b), a)

\* C23, as stated: BuildGraph produces, for every room, a neighbor list that
\* contains one entry per incident tunnel in the order the tunnels appear in
\* the input, and the adjacency is symmetric: b occurs in a's list as many
\* times as a occurs in b's list.
C23_NeighborLists ==
    pc = "find" =>
        /\ \A a \in RoomNames : Get(graphData.Neighbors, a) = OnePerTunnel(a)
        /\ SymmetricAdjacency

\* C23, amended: BuildGraph produces, for every room, a neighbor list that
\* contains, in the order the tunnels appear in the input, one entry per
\* incident tunnel that joins the room to another room and two entries per
\* tunnel that joins the room to itself, and the adjacency is symmetric.
C23_NeighborListsSelfTwice ==
    pc = "find" =>
        /\ \A a \in RoomNames :
              Get(graphData.Neighbors, a) = OnePerTunnelEnd(a, 1)
        /\ SymmetricAdjacency

C23_Witness ==
    /\ pc = "find"
    /\ \E a \in RoomNames :
          /\ Len(Get(graphData.Neighbors, a)) >= 3
          /\ \E k \in 1..Len(tunnels) :
                tunnels[k].RoomA = a /\ tunnels[k].RoomB = a

\* the room list breaks the uniqueness of start and end: several rooms
\* flagged start, several flagged end, or one room flagged both
FlagsViolated ==
    \/ Cardinality(StartRooms) > 1
    \/ Cardinality(EndRooms) > 1
    \/ StartRooms \cap EndRooms # {}

\* C15: the core rejects a room set that violates start/end uniqueness: if
\* more than one room is flagged start, more than one room is flagged end,
\* or one room is flagged both start and end, route discovery returns an
\* error instead of routes.
C15_RejectsFlagViolation ==
    FlagsViolated => ~RoutesReturned

\* what the runs of one build on the built graph can produce: one output
\* for each pair of names the scan of the Rooms map can end with
RunOutputs(impl) ==
    { RunOutput(impl, graphData, antCount, s0, e0) :
        s0 \in flaggedRooms(graphData.Rooms, "IsStart"),
        e0 \in flaggedRooms(graphData.Rooms, "IsEnd") }

\* C18: the pipeline is deterministic: two runs on the same room list,
\* tunnel list and ant count produce the same route list (same order), the
\* same allocation and the same turn-by-turn move trace.
C18_Deterministic ==
    pc = "find" =>
        \A impl \in SortImpls : Cardinality(RunOutputs(impl)) = 1

\* the number of entries of the neighbor lists of an adjacency
EntriesOf(adj) ==
    Cardinality(UNION { {a} \X (1..Len(adj[a])) : a \in DOMAIN adj })

\* C35: FindMultiplePaths terminates on every graph for which a start and
\* an end room are found, self-tunnels, duplicate tunnels and a room
\* flagged both start and end included: every successful search round
\* strictly shrinks the working adjacency, so the rounds are at most as
\* many as the entries of the original adjacency.
C35_RoundsShrink ==
    /\ [](pc = "search" =>
             Len(foundPaths) <= EntriesOf(graphData.Neighbors))
    /\ [][(pc = "search" /\ Len(foundPaths') = Len(foundPaths) + 1) =>
             EntriesOf(connectionsCopy') < EntriesOf(connectionsCopy)]_vars

---------------------------------------------------------------------------
(* Properties of the run on an input file, checked under SpecDup *)

\* two room lines of the input define rooms of the same name
DuplicateNames ==
    \E i, j \in 1..Len(roomList) :
        i < j /\ roomList[i].Name = roomList[j].Name

\* C24: an input that defines two rooms with the same name is rejected with
\* an error before any route is computed.
C24_DuplicateRoomsRejected ==
    DuplicateNames => (foundPaths = <<>> /\ ~RoutesReturned)

---------------------------------------------------------------------------
(* Properties of the whole pipeline on the farms of WideRooms rooms,       *)
(* checked under SpecWide                                                  *)

\* every ant of the simulation, as a pair (route, index in the route)
AllAnts ==
    UNION { {i} \X AntsOf(simStates[i]) : i \in 1..Len(simStates) }

\* ant a moves in the step
Moves(a) ==
    simStates'[a[1]].Positions[a[2]] # simStates[a[1]].Positions[a[2]]

\* the room ant a is in before the step: the start room while not injected
RoomBefore(a) ==
    LET sim == simStates[a[1]]
        pos == sim.Positions[a[2]]
    IN  IF pos = NotInjected THEN RoomAt(sim.Path, 0) ELSE RoomAt(sim.Path, pos)

\* the room ant a is in after the step
RoomAfter(a) ==
    LET sim == simStates'[a[1]]
    IN  RoomAt(sim.Path, sim.Positions[a[2]])

\* the tunnel ant a goes through in the step
TunnelUsed(a) == { RoomBefore(a), RoomAfter(a) }

\* C19: in any run of the whole pipeline, in every turn each tunnel
\* (undirected pair of rooms) is traversed by at most one ant, counting both
\* directions and the ants of all routes.
C19_TunnelOncePerTurn ==
    [][pc = "turns" =>
          \A a, b \in AllAnts :
              (a # b /\ Moves(a) /\ Moves(b)) => TunnelUsed(a) # TunnelUsed(b)]_vars

\* the tunnels of a route, as undirected pairs
TunnelsOf(route) ==
    { { route[k], route[k + 1] } : k \in 1..(Len(route) - 1) }

\* C20: no tunnel is used by two routes returned by FindMultiplePaths: for
\* any two distinct returned routes, no undirected tunnel {a, b} appears as
\* a consecutive pair in both, in either direction.
C20_TunnelDisjoint ==
    pc = "assign" =>
        \A i, j \in 1..Len(paths) :
            i # j => TunnelsOf(paths[i]) \cap TunnelsOf(paths[j]) = {}

---------------------------------------------------------------------------
(* Properties of ExtractPaths, checked under SpecExtract *)

\* C34: ExtractPaths returns edge-disjoint paths from start to end: the
\* paths it returns are simple start-to-end paths and no tunnel is used by
\* two of them.
C34_ExtractEdgeDisjoint ==
    pc = "extracted" =>
        /\ \A i \in 1..Len(paths) : ValidRoute(paths[i])
        /\ \A i, j \in 1..Len(paths) :
              i # j => TunnelsOf(paths[i]) \cap TunnelsOf(paths[j]) = {}

---------------------------------------------------------------------------
(* Properties of AssignAnts, checked under SpecSched *)

\* a step of the loop over the ants: one more ant has been placed
AntPlaced == pc = "assignLoop" /\ antIdx' = antIdx + 1

\* the cost of route j for the next ant, from the counts before it is placed
CostBefore(j) == Len(paths[j]) + antsPerPath[j] - 1

\* route j is the one the step has placed the ant on
PlacedOn(j) ==
    antsPerPath' = [antsPerPath EXCEPT ![j] = antsPerPath[j] + 1]

\* the routes of minimum cost before the step
MinCostRoutes ==
    { j \in 1..Len(paths) :
        \A k \in 1..Len(paths) : CostBefore(j) <= CostBefore(k) }

\* the smallest element of a non-empty set of integers
Least(S) == CHOOSE x \in S : \A y \in S : x <= y

\* C3: for every antCount >= 0 and every non-empty route list, the
\* allocation AssignAnts returns has one non-negative count per route and
\* the counts sum to exactly antCount.
C3_AllocationConservation ==
    pc = "simulate" =>
        /\ Len(antsPerPath) = Len(paths)
        /\ \A j \in 1..Len(antsPerPath) : antsPerPath[j] >= 0
        /\ SumSeq(antsPerPath) = antCount

C3_Witness ==
    /\ pc = "simulate"
    /\ antCount >= 3
    /\ \E j, k \in 1..Len(antsPerPath) :
          j # k /\ antsPerPath[j] > 0 /\ antsPerPath[k] > 0

\* C8: each ant in sequence is assigned to a route whose cost, length(r) +
\* assignedSoFar(r) - 1 computed from the counts before that ant is placed,
\* is the minimum over all routes.
C8_MinimumCost ==
    [][AntPlaced => \E j \in MinCostRoutes : PlacedOn(j)]_vars

C8_Witness ==
    /\ pc = "assignLoop"
    /\ antIdx >= 2
    /\ \E j, k \in 1..Len(paths) :
          /\ Len(paths[j]) < Len(paths[k])
          /\ antsPerPath[j] > 0
          /\ antsPerPath[k] > 0

\* C9, as stated: whenever two or more routes have the same minimum cost
\* for an ant, the ant is assigned to the one with the smallest index in the
\* route list, for route lists of any size.
C9_TieToSmallestIndex ==
    [][AntPlaced => PlacedOn(Least(MinCostRoutes))]_vars

\* the route list of the example: two routes of 4 and 6 rooms
ExampleRoutes == Len(paths) = 2 /\ Len(paths[1]) = 4 /\ Len(paths[2]) = 6

\* C9, amended: for route lists of at most 6 routes, whenever two or more
\* routes have the same minimum cost for an ant, the ant is assigned to the
\* one with the smallest index; so routes of lengths 4 and 6 with 3 ants
\* give the allocation [3, 0].
C9_TieToSmallestIndexUpTo6 ==
    /\ [][AntPlaced /\ Len(paths) <= 6 =>
             PlacedOn(Least(MinCostRoutes))]_vars
    /\ [](pc = "simulate" /\ ExampleRoutes /\ antCount = 3 =>
             antsPerPath = << 3, 0 >>)

C9_Witness ==
    /\ pc = "simulate"
    /\ ExampleRoutes
    /\ antCount = 3
    /\ antsPerPath = << 3, 0 >>

---------------------------------------------------------------------------
(* Properties of SimulateMultiPath, checked under SpecSim *)

\* the simulation state exists: initSimulation has run
Simulating == pc \in {"turns", "done"}

\* the final index of a route
FinalIndex(sim) == Len(sim.Path) - 1

\* the number of ants allocated to the routes before route i
IdBase(i) == SumSeq(SubSeq(antsPerPath, 1, i - 1))

\* the ids of all ants of the simulation
AllIds ==
    UNION { { simStates[i].AntIDs[j] : j \in 1..Len(simStates[i].AntIDs) } :
            i \in 1..Len(simStates) }

\* C22: ant ids are assigned at simulation start sequentially from 1, route
\* by route in route-list order and by index within a route: the ids on
\* route i are the consecutive integers following those of route i-1, every
\* id in 1..antCount is used exactly once, and ids never change during the
\* simulation.
C22_AntIdsSequential ==
    Simulating =>
        /\ Len(simStates) = Len(paths)
        /\ \A i \in 1..Len(simStates) :
              /\ Len(simStates[i].AntIDs) = antsPerPath[i]
              /\ Len(simStates[i].Positions) = antsPerPath[i]
              /\ \A j \in 1..antsPerPath[i] :
                    simStates[i].AntIDs[j] = IdBase(i) + j
        /\ AllIds = 1..antCount
        /\ Cardinality(AllAnts) = antCount

C22_Witness ==
    /\ pc = "done"
    /\ turnCount >= 3
    /\ Len(simStates) = 2
    /\ simStates[1].AntIDs = << 1, 2 >>
    /\ simStates[2].AntIDs = << 3, 4, 5 >>

\* C4: after every recorded turn, within each route no two ants have the
\* same position index, unless that index is the start (not yet entered) or
\* the final index of the route (end).
C4_OccupancyPerRoute ==
    Simulating =>
        \A i \in 1..Len(simStates) :
            \A j, k \in AntsOf(simStates[i]) :
                (j # k /\ simStates[i].Positions[j] = simStates[i].Positions[k])
                    => simStates[i].Positions[j] \in
                           {NotInjected, 0, FinalIndex(simStates[i])}

C4_Witness ==
    /\ pc = "turns"
    /\ turnCount >= 2
    /\ \E i \in 1..Len(simStates) :
          \E j, k \in AntsOf(simStates[i]) :
              /\ simStates[i].Positions[j] = 1
              /\ simStates[i].Positions[k] = 2
              /\ FinalIndex(simStates[i]) > 2

\* the upper bound of C5: the sum over the routes of (length - 1) * allocated
RECURSIVE TurnBoundFrom(_)
TurnBoundFrom(k) ==
    IF k > Len(paths) THEN 0
    ELSE (Len(paths[k]) - 1) * antsPerPath[k] + TurnBoundFrom(k + 1)

\* C5: for every route list whose routes have at least two nodes and every
\* allocation, SimulateMultiPath halts, and the number of recorded turns is
\* at most the sum over routes of (length(r) - 1) * allocated(r).
C5_Termination ==
    /\ <>(pc = "done")
    /\ [](turnCount <= TurnBoundFrom(1))

C5_Witness ==
    /\ pc = "done"
    /\ Len(paths) = 2
    /\ turnCount >= 4
    /\ \A k \in 1..Len(paths) : antsPerPath[k] >= 2

\* C6: when the simulation halts, every ant of every route is at the final
\* index of its route; no ant is left waiting at the start or inside a
\* route.
C6_AllAtEndWhenHalted ==
    pc = "done" =>
        \A i \in 1..Len(simStates) :
            \A j \in AntsOf(simStates[i]) :
                simStates[i].Positions[j] = FinalIndex(simStates[i])

C6_Witness ==
    /\ pc = "done"
    /\ \E i \in 1..Len(simStates) :
          Len(simStates[i].Path) >= 3 /\ Len(simStates[i].Positions) >= 2

\* C7: for a single route of L nodes (L >= 2) carrying N ants (N >= 1), the
\* simulation records exactly (L - 1) + (N - 1) turns.
C7_SingleRouteTurns ==
    (pc = "done" /\ Len(paths) = 1 /\ antsPerPath[1] >= 1) =>
        turnCount = (Len(paths[1]) - 1) + (antsPerPath[1] - 1)

C7_Witness ==
    /\ pc = "done"
    /\ Len(paths) = 1
    /\ Len(paths[1]) >= 4
    /\ antsPerPath[1] >= 3

\* ant j of route i is named in a move of the turn this step records
RecordedMoving(i, j) ==
    /\ Len(moveOutputs') = Len(moveOutputs) + 1
    /\ \E m \in 1..Len(moveOutputs'[Len(moveOutputs')]) :
          moveOutputs'[Len(moveOutputs')][m].ant = simStates[i].AntIDs[j]

\* C10: across the turns of a simulation, every ant's position never
\* decreases, and on every turn in which an ant that has already entered
\* its route is recorded as moving, its position index increases by exactly
\* one.
C10_MonotonicAdvance ==
    [][pc = "turns" =>
          \A i \in 1..Len(simStates) :
              \A j \in AntsOf(simStates[i]) :
                  /\ simStates'[i].Positions[j] >= simStates[i].Positions[j]
                  /\ (simStates[i].Positions[j] # NotInjected
                          /\ RecordedMoving(i, j))
                        => simStates'[i].Positions[j] =
                               simStates[i].Positions[j] + 1]_vars

C10_Witness ==
    /\ pc = "turns"
    /\ turnCount >= 3
    /\ \E i \in 1..Len(simStates) :
          \E j \in AntsOf(simStates[i]) :
              /\ simStates[i].Positions[j] = 2
              /\ FinalIndex(simStates[i]) > 2

\* C25: ants enter a route in ascending order of ant id: an ant of a route
\* has entered only if every ant of that route with a smaller id has.
C25_EnterAscending ==
    Simulating =>
        \A i \in 1..Len(simStates) :
            \A j, k \in AntsOf(simStates[i]) :
                (/\ simStates[i].AntIDs[j] < simStates[i].AntIDs[k]
                 /\ simStates[i].Positions[k] # NotInjected)
                    => simStates[i].Positions[j] # NotInjected

\* the ants of route i that this step takes from the start room into the
\* route
Entering(i) ==
    { j \in AntsOf(simStates[i]) :
        /\ simStates[i].Positions[j] = NotInjected
        /\ simStates'[i].Positions[j] # NotInjected }

\* the ants of route i that have not entered it
Waiting(i) ==
    { j \in AntsOf(simStates[i]) : simStates[i].Positions[j] = NotInjected }

\* C28: on a two-node route at most one ant enters per turn, and exactly
\* one ant enters on every turn while some ant of that route has not yet
\* entered.
C28_DirectOnePerTurn ==
    [][(pc = "turns") =>
          \A i \in 1..Len(simStates) :
              Len(simStates[i].Path) = 2 =>
                  Cardinality(Entering(i)) =
                      IF Waiting(i) = {} THEN 0 ELSE 1]_vars

C28_Witness ==
    /\ pc = "turns"
    /\ turnCount >= 2
    /\ \E i \in 1..Len(simStates) :
          /\ Len(simStates[i].Path) = 2
          /\ Len(simStates[i].Positions) >= 3
          /\ Waiting(i) # {}
          /\ Cardinality(Waiting(i)) < Len(simStates[i].Positions)

\* C29: on a route with more than two nodes, at the start of every turn the
\* positions are non-decreasing in the ant's index: an ant with a higher
\* index is never behind an ant with a lower index (-1, not yet entered,
\* being the position furthest behind).
C29_PositionsOrdered ==
    Simulating =>
        \A i \in 1..Len(simStates) :
            Len(simStates[i].Path) > 2 =>
                \A j, k \in AntsOf(simStates[i]) :
                    j < k => simStates[i].Positions[j]
                                 <= simStates[i].Positions[k]

C29_Witness ==
    /\ pc = "turns"
    /\ \E i \in 1..Len(simStates) :
          /\ Len(simStates[i].Path) > 3
          /\ simStates[i].Positions = << NotInjected, 1, 2 >>

\* C30: the simulation stops at the first turn in which no ant's position
\* changes; that turn is not recorded, every recorded turn contains at
\* least one move, and the reported turn count equals the number of
\* recorded turns.
C30_StopsAtIdleTurn ==
    /\ [](/\ turnCount = Len(moveOutputs)
          /\ \A t \in 1..Len(moveOutputs) : Len(moveOutputs[t]) >= 1)
    /\ [][(pc = "turns") =>
            IF simStates' = simStates
            THEN /\ pc' = "done"
                 /\ moveOutputs' = moveOutputs
                 /\ turnCount' = turnCount
            ELSE /\ pc' = "turns"
                 /\ Len(moveOutputs') = Len(moveOutputs) + 1
                 /\ turnCount' = turnCount + 1]_vars

C30_Witness ==
    /\ pc = "done"
    /\ turnCount >= 4
    /\ Len(moveOutputs) = turnCount
    /\ Len(simStates) = 2

\* the moves of the turn this step takes: those it records, none when the
\* turn is not recorded
TurnMoves ==
    IF Len(moveOutputs') = Len(moveOutputs) + 1
    THEN moveOutputs'[Len(moveOutputs')] ELSE <<>>

\* the moves of the turn that name the ant with this id
MovesOf(id) == { m \in 1..Len(TurnMoves) : TurnMoves[m].ant = id }

\* C31: the moves recorded for a turn are exactly the position changes of
\* that turn: each ant whose position changed has exactly one recorded
\* move, naming the room at its new index on its route, and no ant whose
\* position did not change has a recorded move.
C31_MovesArePositionChanges ==
    [][(pc = "turns") =>
          /\ \A i \in 1..Len(simStates) :
                \A j \in AntsOf(simStates[i]) :
                    LET id == simStates[i].AntIDs[j]
                        new == simStates'[i].Positions[j]
                    IN  IF new # simStates[i].Positions[j]
                        THEN /\ Cardinality(MovesOf(id)) = 1
                             /\ \A m \in MovesOf(id) :
                                   TurnMoves[m].room =
                                       RoomAt(simStates[i].Path, new)
                        ELSE MovesOf(id) = {}
          /\ \A m \in 1..Len(TurnMoves) : TurnMoves[m].ant \in AllIds]_vars

C31_Witness ==
    /\ pc = "turns"
    /\ Len(simStates) = 2
    /\ Len(moveOutputs) >= 2
    /\ Len(moveOutputs[Len(moveOutputs)]) >= 3
    /\ \E i \in 1..Len(simStates) :
          \E j \in AntsOf(simStates[i]) : simStates[i].Positions[j] = 2

\* C32: once an ant reaches the final index of its route it is inert: its
\* position never changes again and it appears in no move of any later
\* turn.
C32_InertAtEnd ==
    [][(pc = "turns") =>
          \A i \in 1..Len(simStates) :
              \A j \in AntsOf(simStates[i]) :
                  simStates[i].Positions[j] = FinalIndex(simStates[i]) =>
                      /\ simStates'[i].Positions[j] =
                             simStates[i].Positions[j]
                      /\ MovesOf(simStates[i].AntIDs[j]) = {}]_vars

C32_Witness ==
    /\ pc = "turns"
    /\ Len(moveOutputs) >= 4
    /\ \E i \in 1..Len(simStates) :
          /\ Len(simStates[i].Path) >= 3
          /\ Len(simStates[i].Positions) >= 3
          /\ simStates[i].Positions[3] = FinalIndex(simStates[i])
          /\ simStates[i].Positions[1] < FinalIndex(simStates[i])
    /\ \E i \in 1..Len(simStates) :
          /\ Len(simStates[i].Path) = 2
          /\ Len(simStates[i].Positions) >= 1
          /\ simStates[i].Positions[1] = 1

\* the simulation states after t turns of a simulation that began as sims
RECURSIVE AfterTurns(_, _)
AfterTurns(sims, t) ==
    IF t = 0 THEN sims ELSE AfterTurns(processTurn(sims).simStates, t - 1)

\* the positions of the ants of route i after t turns of a simulation of
\* route i alone, with the ants allocated to it
AlonePositions(i, t) ==
    AfterTurns(initSimulation(<< paths[i] >>, << antsPerPath[i] >>),
               t)[1].Positions

\* C33: routes are simulated independently: after any number of turns the
\* positions of the ants of a route are those the route has after as many
\* turns of a simulation of that route alone, whatever other routes are
\* simulated alongside it.
C33_RoutesIndependent ==
    Simulating =>
        \A i \in 1..Len(simStates) :
            /\ simStates[i].Path = paths[i]
            /\ simStates[i].Positions = AlonePositions(i, Len(moveOutputs))

C33_Witness ==
    /\ pc = "turns"
    /\ Len(moveOutputs) >= 3
    /\ Len(simStates) = 2
    /\ Len(simStates[1].Path) > Len(simStates[2].Path)
    /\ Len(simStates[1].Positions) >= 2
    /\ Len(simStates[2].Positions) >= 2
    /\ \E j \in AntsOf(simStates[1]) :
          simStates[1].Positions[j] \notin {NotInjected, FinalIndex(simStates[1])}
    /\ \A j \in AntsOf(simStates[2]) :
          simStates[2].Positions[j] = FinalIndex(simStates[2])

\* C36: on a route with more than two nodes an ant is never blocked after
\* entering: on every turn an ant that has entered and is not at the final
\* index advances by one index, and while the route has ants waiting at the
\* start exactly one of them enters on every turn.
C36_NeverBlocked ==
    [][(pc = "turns") =>
          \A i \in 1..Len(simStates) :
              Len(simStates[i].Path) > 2 =>
                  /\ \A j \in AntsOf(simStates[i]) :
                        LET pos == simStates[i].Positions[j]
                        IN  (pos # NotInjected
                                /\ pos < FinalIndex(simStates[i]))
                              => simStates'[i].Positions[j] = pos + 1
                  /\ Cardinality(Entering(i)) =
                        IF Waiting(i) = {} THEN 0 ELSE 1]_vars

C36_Witness ==
    /\ pc = "turns"
    /\ \E i \in 1..Len(simStates) :
          /\ Len(simStates[i].Path) = 4
          /\ simStates[i].Positions = << 1, 2, 3 >>

\* the routes with at least one allocated ant
UsedRoutes == { i \in 1..Len(paths) : antsPerPath[i] >= 1 }

\* the turns route i needs for its ants
RouteTurns(i) == (Len(paths[i]) - 1) + (antsPerPath[i] - 1)

\* the largest number of a non-empty set of numbers, 0 for the empty set
MaxOf(S) == IF S = {} THEN 0 ELSE CHOOSE x \in S : \A y \in S : y <= x

\* C37: for any list of routes simulated with any allocation, the number of
\* recorded turns equals the maximum, over the routes with at least one
\* allocated ant, of (length(r) - 1) + (allocated(r) - 1), and is 0 when no
\* ant is allocated.
C37_TotalTurns ==
    pc = "done" =>
        /\ turnCount = MaxOf({ RouteTurns(i) : i \in UsedRoutes })
        /\ Len(moveOutputs) = turnCount

C37_Witness ==
    /\ pc = "done"
    /\ Len(paths) = 2
    /\ UsedRoutes = {1, 2}
    /\ RouteTurns(2) > RouteTurns(1)
    /\ Len(paths[1]) > Len(paths[2])
    /\ turnCount = RouteTurns(2)

---------------------------------------------------------------------------
(* Optimality of AssignAnts, checked under SpecSched *)

\* the allocations of total ants to n routes: one count per route
RECURSIVE Allocations(_, _)
Allocations(n, total) ==
    IF n = 0 THEN (IF total = 0 THEN { <<>> } ELSE {})
    ELSE UNION { { Append(a, k) : a \in Allocations(n - 1, total - k) } :
                 k \in 0..total }

\* the turn count of an allocation: the maximum of length(r) + allocated(r)
\* - 2 over the routes with an allocated ant
TurnsOf(alloc) ==
    MaxOf({ Len(paths[j]) + alloc[j] - 2 :
              j \in { k \in 1..Len(paths) : alloc[k] > 0 } })

\* C38: for a non-empty route list and an ant count N >= 1, the allocation
\* AssignAnts returns minimizes the turn count: no allocation of N ants to
\* the routes has a smaller maximum of length(r) + allocated(r) - 2 over
\* the routes with allocated(r) > 0.
C38_AllocationOptimal ==
    (pc = "simulate" /\ antCount >= 1) =>
        \A alloc \in Allocations(Len(paths), antCount) :
            TurnsOf(antsPerPath) <= TurnsOf(alloc)

C38_Witness ==
    /\ pc = "simulate"
    /\ antCount >= 3
    /\ Len(paths) >= 3
    /\ Len(paths[1]) < Len(paths[2])
    /\ antsPerPath[1] >= 2
    /\ antsPerPath[2] >= 1
    /\ antsPerPath[3] = 0

===========================================================================
